---- MODULE Spec2Model ----
(***************************************************************************)
(* The Hugging Face embedding proxy of src/server.js as a state machine.   *)
(*                                                                         *)
(* The process serves several requests at once: a handler runs until its   *)
(* next `await` (or until it has sent its response), and the completion of *)
(* the awaited outbound call resumes it.  One action is one such run.      *)
(* Request bodies are JSON values, outbound calls end in one of the        *)
(* outcomes axios distinguishes, and every response records the status,    *)
(* the headers the middleware set and the body the handler built.          *)
(* Timestamps, uptime and log lines are left out: nothing reads them.      *)
(*                                                                         *)
(* A body that parses reaches its route as an object whose absent fields   *)
(* read as undefined; a body that does not parse never reaches a route.    *)
(* With such bodies nothing outside the inner try blocks of the batch and  *)
(* test handlers can throw, so their outer catch blocks (lines 185-188,    *)
(* 263-269) are never entered, and no catch block itself throws.           *)
(***************************************************************************)
EXTENDS Integers, Sequences, FiniteSets, TLC

\* Longest `texts` array a batch request carries.
MaxTexts == 2

\* Requests the process serves at the same time.
Slots == {1, 2}

---------------------------------------------------------------------------
(* JSON values of a request body.  A string or a number is carried as the  *)
(* sequence of its characters, an array as the sequence of its elements.   *)

Undef == [t |-> "undefined", s |-> <<>>, a |-> <<>>]
Null == [t |-> "null", s |-> <<>>, a |-> <<>>]
Str(cs) == [t |-> "string", s |-> cs, a |-> <<>>]
Num(cs) == [t |-> "number", s |-> cs, a |-> <<>>]
Arr(xs) == [t |-> "array", s |-> <<>>, a |-> xs]

\* JavaScript's ToBoolean, as `!model` and `!inputs` apply it.
Truthy(v) ==
  CASE v.t = "undefined" -> FALSE
    [] v.t = "null" -> FALSE
    [] v.t = "string" -> v.s # <<>>
    [] v.t = "number" -> v.s # <<"0">>
    [] OTHER -> TRUE

\* JavaScript's typeof.
TypeOf(v) ==
  CASE v.t = "undefined" -> "undefined"
    [] v.t = "string" -> "string"
    [] v.t = "number" -> "number"
    [] OTHER -> "object"

IsArray(v) == v.t = "array"

\* A UTF-16 code unit that is half of a surrogate pair with no partner:
\* JSON.parse accepts "\ud800" and encodeURIComponent rejects it.
LoneSurrogate == "\\ud800"

\* encodeURIComponent throws URIError exactly on a lone surrogate.
UriOk(cs) == \A k \in 1..Len(cs) : cs[k] # LoneSurrogate

PercentEncode(c) == IF c = "/" THEN <<"%", "2", "F">> ELSE <<c>>

RECURSIVE EncodeURIComponent(_)
EncodeURIComponent(cs) ==
  IF cs = <<>> THEN <<>>
  ELSE PercentEncode(Head(cs)) \o EncodeURIComponent(Tail(cs))

HfBase == <<"https://api-inference.huggingface.co/models/">>

HfUrl(model) == HfBase \o EncodeURIComponent(model.s)

---------------------------------------------------------------------------
(* The inputs the requests are drawn from.                                 *)

GoodModel == Str(<<"o", "/", "m">>)
BadModel == Str(<<LoneSurrogate>>)

ModelVals == {Undef, Str(<<>>), GoodModel, BadModel, Num(<<"7">>)}

InputsVals ==
  {Undef, Null, Str(<<>>), Str(<<"a">>), Num(<<"7">>), Arr(<<Str(<<"a">>)>>)}

StrElems == {Str(<<"a">>), Str(<<"b">>)}

\* n texts that alternate between the two strings, so that neighbours differ.
AltTexts(first, n) ==
  [k \in 1..n |-> IF k % 2 = 1 THEN first ELSE CHOOSE e \in StrElems : e # first]

TextsVals ==
  {Undef, Str(<<"a">>), Arr(<<>>)}
    \cup {Arr(AltTexts(e, n)) : e \in StrElems, n \in 1..MaxTexts}
    \cup {Arr(<<Num(<<"7">>)>>), Arr(<<Str(<<"a">>), Null>>)}

\* How an outbound call can end: an HTTP response (any status), the 60 s
\* timeout, or a failure below HTTP (DNS, refused or reset connection).
Replied(st, d) == [kind |-> "response", status |-> st, data |-> d]
TimedOut == [kind |-> "timeout", status |-> 0, data |-> ""]
NetFailed == [kind |-> "network", status |-> 0, data |-> ""]

Outcomes ==
  {Replied(200, d) : d \in {"vector", "nested", "errorObject"}}
    \cup {Replied(st, "hfBody") : st \in {404, 503}}
    \cup {TimedOut, NetFailed}

\* One outcome of each kind, for the handlers that call once per element.
ItemOutcomes == {Replied(200, "vector"), Replied(503, "hfBody"), TimedOut, NetFailed}

---------------------------------------------------------------------------
VARIABLES
  envKey,    \* process.env.HF_API_KEY: "" when the environment sets none
  alive,     \* the process is running
  signal,    \* the signal that ended it, "none" while it runs
  pc,        \* per request: "idle", "await" (an outbound call is pending), "done"
  request,   \* per request: what the client sent
  calls,     \* per request: how many outbound calls it has issued
  pending,   \* per request: the outbound call it awaits
  results,   \* per request: the `results` array of the batch and test handlers
  response,  \* per request: the response object, sent once pc is "done"
  replies,   \* per request: how each of its outbound calls ended, in order
  caught     \* per request: the errors raised while it was processed, in order

vars ==
  <<envKey, alive, signal, pc, request, calls, pending, results, response, replies, caught>>


---------------------------------------------------------------------------
(* Process configuration.                                                  *)

\* The literal the source falls back to when the environment sets no key.
FallbackKey == "hf_<literal in server.js>"

\* process.env.HF_API_KEY || '<literal>'
HF_API_KEY == IF envKey # "" THEN envKey ELSE FallbackKey

NODE_ENV == "development"

---------------------------------------------------------------------------
(* The response object and the middleware in front of the routes.          *)

\* A fresh `res`: status 200 until a handler sets another, no headers.
Res0 == [status |-> 200, acao |-> "", preflight |-> FALSE, body |-> [none |-> TRUE]]

Status(res, n) == [res EXCEPT !.status = n]
Json(res, b) == [res EXCEPT !.body = b]

\* cors({origin: '*', methods, allowedHeaders}): Access-Control-Allow-Origin
\* on every request; an OPTIONS request also gets Access-Control-Allow-Methods
\* and -Headers and is answered 204 by the middleware itself.
Cors(method, res) ==
  IF method = "OPTIONS"
  THEN [res EXCEPT !.acao = "*", !.preflight = TRUE, !.status = 204]
  ELSE [res EXCEPT !.acao = "*"]

\* ErrorHandler as it would be if the parser's error reached it on a response
\* the cors middleware had not touched (cors registered after express.json).
ErrorHandlerFresh(res, message) ==
  Json(Status(Res0, 500), [error |-> "Internal Server Error", message |-> message])

\* app.use((err, req, res, next) => ...)
ErrorHandler(res, message) ==
  Json(Status(res, 500), [error |-> "Internal Server Error", message |-> message])

\* app.use((req, res) => ...) after every route
NotFoundHandler(res, path) ==
  Json(Status(res, 404), [error |-> "Not Found", path |-> path, availableEndpoints |-> TRUE])

---------------------------------------------------------------------------
(* The outbound call.                                                      *)

NoCall == [url |-> <<>>, inputs |-> Undef, auth |-> "", wait_for_model |-> FALSE]

\* axios.post(hfUrl, {inputs, options: {wait_for_model: true}}, {headers, timeout})
Call(url, inputs) ==
  [url |-> url, inputs |-> inputs, auth |-> "Bearer " \o HF_API_KEY, wait_for_model |-> TRUE]

\* What the handler's catch sees: error.response, error.code, error.message.
NoError == [hasResponse |-> FALSE, status |-> 0, data |-> "", code |-> "", message |-> ""]

URIError == [NoError EXCEPT !.message = "URI malformed"]

\* The awaited axios.post: it resolves on a 2xx response and throws otherwise,
\* with error.response set only when the upstream answered.
AxiosSettle(o) ==
  CASE o.kind = "response" /\ o.status >= 200 /\ o.status < 300 ->
         [ok |-> TRUE, status |-> o.status, data |-> o.data, error |-> NoError]
    [] o.kind = "response" ->
         [ok |-> FALSE, status |-> o.status, data |-> o.data,
          error |-> [hasResponse |-> TRUE, status |-> o.status, data |-> o.data,
                     code |-> IF o.status < 500 THEN "ERR_BAD_REQUEST" ELSE "ERR_BAD_RESPONSE",
                     message |-> "Request failed with status code " \o ToString(o.status)]]
    [] o.kind = "timeout" ->
         [ok |-> FALSE, status |-> 0, data |-> "",
          error |-> [NoError EXCEPT !.code = "ECONNABORTED",
                                    !.message = "timeout of 60000ms exceeded"]]
    [] OTHER ->
         [ok |-> FALSE, status |-> 0, data |-> "",
          error |-> [NoError EXCEPT !.code = "ECONNREFUSED",
                                    !.message = "connect ECONNREFUSED"]]

---------------------------------------------------------------------------
(* One run of a handler: where it stops, the response object, the call it  *)
(* issued (if it stopped at an await), its results array and the errors    *)
(* its try blocks caught on the way.                                       *)

Done(res, acc, errs) ==
  [pc |-> "done", res |-> res, call |-> NoCall, results |-> acc, issued |-> 0, caught |-> errs]

Await(res, call, acc, errs) ==
  [pc |-> "await", res |-> res, call |-> call, results |-> acc, issued |-> 1, caught |-> errs]

\* GET /health
HealthHandler(res) ==
  Json(res, [status |-> "status", environment |-> NODE_ENV, apiKeyLoaded |-> (HF_API_KEY # "")])

\* GET /
CatalogHandler(res) ==
  Json(res, [name |-> "Hugging Face Embedding Proxy API", version |-> "1.0.0",
             environment |-> NODE_ENV])

\* EmbedCatch with one status for every upstream rejection.
EmbedCatchFixedStatus(res, error) ==
  IF error.hasResponse
  THEN Json(Status(res, 500),
            [error |-> "Hugging Face API Error", message |-> error.message,
             hfStatus |-> error.status, hfData |-> error.data])
  ELSE IF error.code = "ECONNABORTED"
  THEN Json(Status(res, 504),
            [error |-> "Request Timeout",
             message |-> "Hugging Face API took too long to respond"])
  ELSE Json(Status(res, 500),
            [error |-> "Server Error", message |-> error.message,
             type |-> IF error.code # "" THEN error.code ELSE "Unknown"])

\* EmbedCatch whose last branch sends its body without setting the status.
EmbedCatchNoStatus(res, error) ==
  IF error.hasResponse
  THEN Json(Status(res, error.status),
            [error |-> "Hugging Face API Error", message |-> error.message,
             hfStatus |-> error.status, hfData |-> error.data])
  ELSE IF error.code = "ECONNABORTED"
  THEN Json(Status(res, 504),
            [error |-> "Request Timeout",
             message |-> "Hugging Face API took too long to respond"])
  ELSE Json(res,
            [error |-> "Server Error", message |-> error.message,
             type |-> IF error.code # "" THEN error.code ELSE "Unknown"])

\* POST /api/hf-embed: the catch block
EmbedCatch(res, error) ==
  IF error.hasResponse
  THEN Json(Status(res, error.status),
            [error |-> "Hugging Face API Error", message |-> error.message,
             hfStatus |-> error.status, hfData |-> error.data])
  ELSE IF error.code = "ECONNABORTED"
  THEN Json(Status(res, 504),
            [error |-> "Request Timeout",
             message |-> "Hugging Face API took too long to respond"])
  ELSE Json(Status(res, 500),
            [error |-> "Server Error", message |-> error.message,
             type |-> IF error.code # "" THEN error.code ELSE "Unknown"])

\* EmbedHandler without the typeof test on inputs.
EmbedHandlerNoTypeCheck(res, model, inputs) ==
  IF ~Truthy(model)
  THEN Done(Json(Status(res, 400),
                 [error |-> "Missing required field: model", example |-> TRUE]), <<>>, <<>>)
  ELSE IF ~Truthy(inputs)
  THEN Done(Json(Status(res, 400),
                 [error |-> "Invalid inputs: must be a non-empty string",
                  received |-> TypeOf(inputs)]), <<>>, <<>>)
  ELSE IF ~UriOk(model.s)
  THEN Done(EmbedCatch(res, URIError), <<>>, <<URIError>>)
  ELSE Await(res, Call(HfUrl(model), inputs), <<>>, <<>>)

\* POST /api/hf-embed: from the top of the handler to the await
EmbedHandler(res, model, inputs) ==
  IF ~Truthy(model)
  THEN Done(Json(Status(res, 400),
                 [error |-> "Missing required field: model", example |-> TRUE]), <<>>, <<>>)
  ELSE IF ~Truthy(inputs) \/ TypeOf(inputs) # "string"
  THEN Done(Json(Status(res, 400),
                 [error |-> "Invalid inputs: must be a non-empty string",
                  received |-> TypeOf(inputs)]), <<>>, <<>>)
  ELSE IF ~UriOk(model.s)
  THEN Done(EmbedCatch(res, URIError), <<>>, <<URIError>>)
  ELSE Await(res, Call(HfUrl(model), inputs), <<>>, <<>>)

\* EmbedResume that wraps the embedding in an envelope.
EmbedResumeEnvelope(res, o) ==
  LET r == AxiosSettle(o)
  IN  IF r.ok
      THEN Done(Json(res, [embedding |-> [opaque |-> r.data], success |-> TRUE]), <<>>, <<>>)
      ELSE Done(EmbedCatch(res, r.error), <<>>, <<r.error>>)

\* POST /api/hf-embed: from the await to the end
EmbedResume(res, o) ==
  LET r == AxiosSettle(o)
  IN  IF r.ok THEN Done(Json(res, [opaque |-> r.data]), <<>>, <<>>)
      ELSE Done(EmbedCatch(res, r.error), <<>>, <<r.error>>)

ItemOk(text, data) == [text |-> text, embedding |-> [opaque |-> data], success |-> TRUE]
ItemFailed(text, error) == [text |-> text, error |-> error.message, success |-> FALSE]

\* POST /api/hf-embed-batch: the for loop from the element after `acc` on,
\* up to its next await or to res.json
RECURSIVE BatchLoop(_, _, _, _, _)
BatchLoop(res, model, texts, acc, errs) ==
  IF Len(acc) = Len(texts)
  THEN Done(Json(res, [model |-> model, count |-> Len(texts), results |-> acc]), acc, errs)
  ELSE LET text == texts[Len(acc) + 1]
       IN  IF ~UriOk(model.s)
           THEN BatchLoop(res, model, texts, Append(acc, ItemFailed(text, URIError)),
                          Append(errs, URIError))
           ELSE Await(res, Call(HfUrl(model), text), acc, errs)

\* POST /api/hf-embed-batch: from the top of the handler to the first await
BatchHandler(res, model, texts) ==
  IF ~Truthy(model) \/ ~IsArray(texts) \/ Len(texts.a) = 0
  THEN Done(Json(Status(res, 400), [error |-> "Missing model or empty texts array"]),
            <<>>, <<>>)
  ELSE BatchLoop(res, model, texts.a, <<>>, <<>>)

\* BatchResume without the inner try: the first failing element ends the batch
\* in the outer catch.
BatchResumeAbort(res, model, texts, acc, o) ==
  LET r == AxiosSettle(o)
      text == texts[Len(acc) + 1]
  IN  IF r.ok
      THEN BatchLoop(res, model, texts, Append(acc, ItemOk(text, r.data)), <<>>)
      ELSE Done(Json(Status(res, 500), [error |-> r.error.message]), acc, <<r.error>>)

\* BatchResume that calls again for an element whose call failed.
BatchResumeRetry(res, model, texts, acc, o) ==
  LET r == AxiosSettle(o)
      text == texts[Len(acc) + 1]
  IN  IF r.ok
      THEN BatchLoop(res, model, texts, Append(acc, ItemOk(text, r.data)), <<>>)
      ELSE Await(res, Call(HfUrl(model), text), acc, <<r.error>>)

\* POST /api/hf-embed-batch: from an await to the next one or to the end
BatchResume(res, model, texts, acc, o) ==
  LET r == AxiosSettle(o)
      text == texts[Len(acc) + 1]
  IN  IF r.ok
      THEN BatchLoop(res, model, texts, Append(acc, ItemOk(text, r.data)), <<>>)
      ELSE BatchLoop(res, model, texts, Append(acc, ItemFailed(text, r.error)), <<r.error>>)

\* POST /api/test: the two hardcoded probes
testCases ==
  << [model |-> Str(<<"sentence-transformers", "/", "all-MiniLM-L6-v2">>),
      text |-> Str(<<"What is the capital of France?">>)],
     [model |-> Str(<<"sentence-transformers", "/", "all-mpnet-base-v2">>),
      text |-> Str(<<"What is the capital of Germany?">>)] >>

TestOk(testCase, data) ==
  [model |-> testCase.model, text |-> testCase.text, status |-> "success",
   embeddingDimensions |-> IF data \in {"vector", "nested"} THEN "length" ELSE "unknown"]

TestFailed(testCase, error) ==
  [model |-> testCase.model, status |-> "failed", error |-> error.message]

\* POST /api/test: the for loop from the probe after `acc` on
TestLoop(res, acc, errs) ==
  IF Len(acc) = Len(testCases)
  THEN Done(Json(res, [apiKeyLoaded |-> (HF_API_KEY # ""), tests |-> acc,
                       allPassed |-> \A k \in 1..Len(acc) : acc[k].status = "success"]),
            acc, errs)
  ELSE LET testCase == testCases[Len(acc) + 1]
       IN  Await(res, Call(HfUrl(testCase.model), testCase.text), acc, errs)

\* POST /api/test: from an await to the next one or to the end
TestResume(res, acc, o) ==
  LET r == AxiosSettle(o)
      testCase == testCases[Len(acc) + 1]
  IN  IF r.ok
      THEN TestLoop(res, Append(acc, TestOk(testCase, r.data)), <<>>)
      ELSE TestLoop(res, Append(acc, TestFailed(testCase, r.error)), <<r.error>>)

---------------------------------------------------------------------------
(* The state machine.                                                      *)

NoRequest ==
  [method |-> "", path |-> "", parsed |-> TRUE,
   model |-> Undef, inputs |-> Undef, texts |-> Undef]

Req(method, path) == [NoRequest EXCEPT !.method = method, !.path = path]

Init ==
  /\ envKey \in {"", "hf_env"}
  /\ alive = TRUE
  /\ signal = "none"
  /\ pc = [s \in Slots |-> "idle"]
  /\ request = [s \in Slots |-> NoRequest]
  /\ calls = [s \in Slots |-> 0]
  /\ pending = [s \in Slots |-> NoCall]
  /\ results = [s \in Slots |-> <<>>]
  /\ response = [s \in Slots |-> Res0]
  /\ replies = [s \in Slots |-> <<>>]
  /\ caught = [s \in Slots |-> <<>>]

\* A request arrives on a free connection and its handler has run to `turn`.
Serve(s, req, turn) ==
  /\ alive
  /\ pc' = [pc EXCEPT ![s] = turn.pc]
  /\ request' = [request EXCEPT ![s] = req]
  /\ calls' = [calls EXCEPT ![s] = turn.issued]
  /\ pending' = [pending EXCEPT ![s] = turn.call]
  /\ results' = [results EXCEPT ![s] = turn.results]
  /\ response' = [response EXCEPT ![s] = turn.res]
  /\ caught' = [caught EXCEPT ![s] = turn.caught]
  /\ UNCHANGED <<envKey, alive, signal, replies>>

\* The awaited call of request s has ended as `o` and its handler has run to `turn`.
Resume(s, o, turn) ==
  /\ alive
  /\ pc' = [pc EXCEPT ![s] = turn.pc]
  /\ calls' = [calls EXCEPT ![s] = @ + turn.issued]
  /\ pending' = [pending EXCEPT ![s] = turn.call]
  /\ results' = [results EXCEPT ![s] = turn.results]
  /\ response' = [response EXCEPT ![s] = turn.res]
  /\ replies' = [replies EXCEPT ![s] = Append(@, o)]
  /\ caught' = [caught EXCEPT ![s] = @ \o turn.caught]
  /\ UNCHANGED <<envKey, alive, signal, request>>

GetHealth(s) ==
  /\ pc[s] = "idle"
  /\ Serve(s, Req("GET", "/health"), Done(HealthHandler(Cors("GET", Res0)), <<>>, <<>>))

GetCatalog(s) ==
  /\ pc[s] = "idle"
  /\ Serve(s, Req("GET", "/"), Done(CatalogHandler(Cors("GET", Res0)), <<>>, <<>>))

\* A preflight: cors answers it, no later middleware or route runs.
Preflight(s) ==
  /\ pc[s] = "idle"
  /\ \E path \in {"/api/hf-embed", "/nowhere"} :
    Serve(s, Req("OPTIONS", path), Done(Cors("OPTIONS", Res0), <<>>, <<>>))

\* No route matches: the 404 handler at the end of the chain.
Unmatched(s) ==
  /\ pc[s] = "idle"
  /\ \E method \in {"GET", "POST"} :
    Serve(s, Req(method, "/nowhere"),
          Done(NotFoundHandler(Cors(method, Res0), "/nowhere"), <<>>, <<>>))

\* express.json's error for a body that is not JSON
ParseError == [NoError EXCEPT !.message = "Unexpected token in JSON"]

\* A POST whose body express.json cannot parse: the parser passes its error
\* to the error handler and no route runs.
PostUnparsable(s) ==
  /\ pc[s] = "idle"
  /\ \E path \in {"/api/hf-embed", "/api/hf-embed-batch"} :
    Serve(s, [Req("POST", path) EXCEPT !.parsed = FALSE],
          Done(ErrorHandler(Cors("POST", Res0), ParseError.message), <<>>, <<ParseError>>))

PostEmbed(s) ==
  /\ pc[s] = "idle"
  /\ \E model \in ModelVals, inputs \in InputsVals :
    Serve(s, [Req("POST", "/api/hf-embed") EXCEPT !.model = model, !.inputs = inputs],
          EmbedHandler(Cors("POST", Res0), model, inputs))

PostBatch(s) ==
  /\ pc[s] = "idle"
  /\ \E model \in ModelVals, texts \in TextsVals :
    Serve(s, [Req("POST", "/api/hf-embed-batch") EXCEPT !.model = model, !.texts = texts],
          BatchHandler(Cors("POST", Res0), model, texts))

PostTest(s) ==
  /\ pc[s] = "idle"
  /\ Serve(s, Req("POST", "/api/test"), TestLoop(Cors("POST", Res0), <<>>, <<>>))

EmbedReply(s) ==
  /\ pc[s] = "await"
  /\ request[s].path = "/api/hf-embed"
  /\ \E o \in Outcomes : Resume(s, o, EmbedResume(response[s], o))

BatchReply(s) ==
  /\ pc[s] = "await"
  /\ request[s].path = "/api/hf-embed-batch"
  /\ \E o \in ItemOutcomes :
       Resume(s, o, BatchResume(response[s], request[s].model, request[s].texts.a,
                                results[s], o))

TestReply(s) ==
  /\ pc[s] = "await"
  /\ request[s].path = "/api/test"
  /\ \E o \in ItemOutcomes : Resume(s, o, TestResume(response[s], results[s], o))

\* The client has read the response; the connection serves the next request.
Close(s) ==
  /\ alive
  /\ pc[s] = "done"
  /\ pc' = [pc EXCEPT ![s] = "idle"]
  /\ request' = [request EXCEPT ![s] = NoRequest]
  /\ calls' = [calls EXCEPT ![s] = 0]
  /\ pending' = [pending EXCEPT ![s] = NoCall]
  /\ results' = [results EXCEPT ![s] = <<>>]
  /\ response' = [response EXCEPT ![s] = Res0]
  /\ replies' = [replies EXCEPT ![s] = <<>>]
  /\ caught' = [caught EXCEPT ![s] = <<>>]
  /\ UNCHANGED <<envKey, alive, signal>>

\* process.on('SIGTERM' | 'SIGINT', () => process.exit(0)): the process and
\* everything it held are gone.
Shutdown ==
  /\ alive
  /\ \E sig \in {"SIGTERM", "SIGINT"} : signal' = sig
  /\ alive' = FALSE
  /\ pc' = [s \in Slots |-> "idle"]
  /\ request' = [s \in Slots |-> NoRequest]
  /\ calls' = [s \in Slots |-> 0]
  /\ pending' = [s \in Slots |-> NoCall]
  /\ results' = [s \in Slots |-> <<>>]
  /\ response' = [s \in Slots |-> Res0]
  /\ replies' = [s \in Slots |-> <<>>]
  /\ caught' = [s \in Slots |-> <<>>]
  /\ UNCHANGED envKey

Next ==
  \/ \E s \in Slots : GetHealth(s)
  \/ \E s \in Slots : GetCatalog(s)
  \/ \E s \in Slots : Preflight(s)
  \/ \E s \in Slots : Unmatched(s)
  \/ \E s \in Slots : PostUnparsable(s)
  \/ \E s \in Slots : PostEmbed(s)
  \/ \E s \in Slots : PostBatch(s)
  \/ \E s \in Slots : PostTest(s)
  \/ \E s \in Slots : EmbedReply(s)
  \/ \E s \in Slots : BatchReply(s)
  \/ \E s \in Slots : TestReply(s)
  \/ \E s \in Slots : Close(s)
  \/ Shutdown

Spec == Init /\ [][Next]_vars

---------------------------------------------------------------------------
(* Vocabulary of the properties, stated on what the client sent and on     *)
(* what the upstream did, not on the handlers' own tests.                  *)

Answered(s) == pc[s] = "done"

IsPost(s, path) ==
  request[s].method = "POST" /\ request[s].path = path /\ request[s].parsed

NonEmptyString(v) == v.t = "string" /\ Len(v.s) > 0

AllStrings(xs) == \A k \in 1..Len(xs) : xs[k].t = "string"

Encodable(v) == \A k \in 1..Len(v.s) : v.s[k] # LoneSurrogate

ValidEmbed(s) ==
  /\ IsPost(s, "/api/hf-embed")
  /\ NonEmptyString(request[s].model)
  /\ NonEmptyString(request[s].inputs)

ValidBatch(s) ==
  /\ IsPost(s, "/api/hf-embed-batch")
  /\ NonEmptyString(request[s].model)
  /\ request[s].texts.t = "array"
  /\ Len(request[s].texts.a) > 0
  /\ AllStrings(request[s].texts.a)

Succeeded(o) == o.kind = "response" /\ o.status \in 200..299

In4xx(n) == n \in 400..499
In5xx(n) == n \in 500..599

FailedItems(acc) == {k \in 1..Len(acc) : ~acc[k].success}
FailedTests(acc) == {k \in 1..Len(acc) : acc[k].status = "failed"}

---------------------------------------------------------------------------
\* C1: a POST /api/hf-embed whose model is absent or empty, or whose inputs
\* is not a string, is answered with a 4xx status and has issued no outbound
\* call.
C1_EmbedRejectsBeforeCalling ==
  \A s \in Slots :
    ( /\ IsPost(s, "/api/hf-embed")
      /\ \/ request[s].model \in {Undef, Str(<<>>)}
         \/ request[s].inputs.t # "string" )
    => /\ Answered(s)
       /\ In4xx(response[s].status)
       /\ calls[s] = 0
       /\ pending[s] = NoCall
       /\ replies[s] = <<>>

\* C1 witness: an array sent as inputs with a good model was answered 400.
C1_Witness ==
  \E s \in Slots :
    /\ IsPost(s, "/api/hf-embed")
    /\ request[s].model = GoodModel
    /\ request[s].inputs.t = "array"
    /\ Answered(s)
    /\ response[s].status = 400

\* C2: a valid batch of N texts is answered 200 with N results in input
\* order, and results[i].success is true exactly when the call for texts[i]
\* succeeded, whatever happened to the other elements.
C2_BatchPerElementOutcome ==
  \A s \in Slots :
    (ValidBatch(s) /\ Answered(s)) =>
      LET texts == request[s].texts.a
          body == response[s].body
      IN  /\ response[s].status = 200
          /\ DOMAIN body = {"model", "count", "results"}
          /\ body.count = Len(texts)
          /\ Len(body.results) = Len(texts)
          /\ \A i \in 1..Len(texts) :
               /\ body.results[i].text = texts[i]
               /\ body.results[i].success
                    <=> (i <= Len(replies[s]) /\ Succeeded(replies[s][i]))

\* C2 witness: of two texts the first timed out and the second succeeded.
C2_Witness ==
  \E s \in Slots :
    /\ ValidBatch(s)
    /\ Answered(s)
    /\ Len(request[s].texts.a) = 2
    /\ replies[s] = <<TimedOut, Replied(200, "vector")>>
    /\ ~response[s].body.results[1].success
    /\ response[s].body.results[2].success

\* C3: in a batch of N >= 2 texts the calls are issued without waiting for
\* each other: whenever the request waits on the upstream, all N calls have
\* been issued.
C3_CallsIssuedWithoutWaiting ==
  \A s \in Slots :
    (ValidBatch(s) /\ pc[s] = "await" /\ Len(request[s].texts.a) >= 2)
      => calls[s] = Len(request[s].texts.a)

\* C4: a valid POST /api/hf-embed whose call failed is answered by failure
\* kind: the upstream's own non-2xx status with its body under hfData, 504
\* for a timeout, 500 for a failure with no response.
C4_EmbedFailureStatus ==
  \A s \in Slots :
    (ValidEmbed(s) /\ Answered(s) /\ replies[s] # <<>> /\ ~Succeeded(replies[s][1])) =>
      LET o == replies[s][1]
      IN  CASE o.kind = "response" ->
                 /\ response[s].status = o.status
                 /\ response[s].body.hfData = o.data
            [] o.kind = "timeout" -> response[s].status = 504
            [] OTHER -> response[s].status = 500

\* C4 witness: the upstream answered 404 and so did the relay.
C4_Witness ==
  \E s \in Slots :
    /\ ValidEmbed(s)
    /\ Answered(s)
    /\ replies[s] = <<Replied(404, "hfBody")>>
    /\ response[s].status = 404
    /\ response[s].body.hfData = "hfBody"

\* C5: GET /health is answered 200 without an outbound call and its
\* apiKeyLoaded is true exactly when the environment configures a key.
C5_HealthReflectsCredential ==
  \A s \in Slots :
    (request[s].method = "GET" /\ request[s].path = "/health" /\ Answered(s)) =>
      /\ response[s].status = 200
      /\ calls[s] = 0
      /\ response[s].body.apiKeyLoaded = (envKey # "")

\* C6: a batch request whose model is missing, empty or not a string, whose
\* texts is not a non-empty array, or one of whose texts is not a string, is
\* answered with a 4xx status and has issued no outbound call.
C6_BatchRejectsBeforeCalling ==
  \A s \in Slots :
    (IsPost(s, "/api/hf-embed-batch") /\ ~ValidBatch(s)) =>
      /\ Answered(s)
      /\ In4xx(response[s].status)
      /\ calls[s] = 0

C8_ExactlyOneCallPerElement ==
  \A s \in Slots :
    /\ (ValidEmbed(s) /\ Answered(s)) => calls[s] = 1
    /\ (ValidBatch(s) /\ Answered(s)) => calls[s] = Len(request[s].texts.a)

\* C8 as amended: no call is repeated. A valid single request makes exactly
\* one call and a valid batch exactly one per element when the model name
\* can be URL-encoded, and none when it cannot; each call made has ended at
\* most once and a failed one is not attempted again.
C8_NoRetry ==
  \A s \in Slots :
    /\ ValidEmbed(s) =>
         /\ calls[s] = IF Encodable(request[s].model) THEN 1 ELSE 0
         /\ Len(replies[s]) = IF Answered(s) THEN calls[s] ELSE 0
    /\ ValidBatch(s) =>
         /\ calls[s] <= Len(request[s].texts.a)
         /\ Len(replies[s]) = IF Answered(s) THEN calls[s] ELSE calls[s] - 1
         /\ Answered(s) =>
              calls[s] = IF Encodable(request[s].model) THEN Len(request[s].texts.a) ELSE 0

\* C8 witness: a batch of two texts whose first call failed was answered
\* after two calls.
C8_Witness ==
  \E s \in Slots :
    /\ ValidBatch(s)
    /\ Answered(s)
    /\ Len(request[s].texts.a) = 2
    /\ Len(replies[s]) = 2
    /\ ~Succeeded(replies[s][1])
    /\ calls[s] = 2

C10_EmbedVerbatim ==
  /\ \A s \in Slots :
       (ValidEmbed(s) /\ Answered(s) /\ replies[s] # <<>> /\ Succeeded(replies[s][1])) =>
         /\ response[s].status = 200
         /\ response[s].body = [opaque |-> replies[s][1].data]
  /\ \A s1, s2 \in Slots :
       ( /\ ValidEmbed(s1) /\ Answered(s1)
         /\ ValidEmbed(s2) /\ Answered(s2)
         /\ request[s1] = request[s2]
         /\ replies[s1] = replies[s2] )
       => response[s1].body = response[s2].body

\* C10 witness: the same request was served twice at the same time and the
\* upstream answered both with the same error-shaped object.
C10_Witness ==
  \E s1, s2 \in Slots :
    /\ s1 # s2
    /\ ValidEmbed(s1) /\ Answered(s1)
    /\ ValidEmbed(s2) /\ Answered(s2)
    /\ request[s1] = request[s2]
    /\ replies[s1] = <<Replied(200, "errorObject")>>
    /\ replies[s2] = <<Replied(200, "errorObject")>>
    /\ response[s1].body = [opaque |-> "errorObject"]

====
